---- MODULE Spec2Model ----
(***************************************************************************)
(* Model of movile (src/main.rs): main / main_internal / find_text_section.*)
(* One run of the program: read the executable, parse it, check that it is *)
(* 64-bit, find ".text", slice its raw bytes out of the file buffer, scan  *)
(* the slice for 0xCC runs, write the digest, return the exit code.        *)
(***************************************************************************)
EXTENDS Integers, Sequences, FiniteSets, TLC

(* ------------------------------ bounds --------------------------------- *)
\* longest file buffer enumerated exhaustively
MaxBuf == 4
\* largest pointer_to_raw_data of an enumerated section header
MaxPtr == 1

\* the sentinel byte matched by the scan (0xCC, int3)
CC == 204

\* byte values a file may hold: 0x90 (a non-sentinel byte) and 0xCC
Bytes == {144, CC}

\* the buffer of the end-to-end scenario: 90 CC CC CC 90 CC CC
ExampleBuffer == <<144, 204, 204, 204, 144, 204, 204>>

SeqsUpTo(S, n) == UNION {[1..m -> S] : m \in 0..n}

\* contents std::fs::read may return
Buffers == SeqsUpTo(Bytes, MaxBuf) \cup {ExampleBuffer}

\* values of cli.min_size (u64); one more than the longest exhaustive buffer
MinSizes == 0..(MaxBuf + 1)

\* cli.output: Option<PathBuf>
Outputs == {"None", "Some"}

\* Result of SectionTable::name(): Ok(str) or Err (name bytes are not UTF-8)
Names == {[ok |-> TRUE, val |-> ".text"],
          [ok |-> TRUE, val |-> ".TEXT"],
          [ok |-> FALSE, val |-> ""]}

\* section headers goblin may hand back; every field comes from the file.
\* usize is 64 bits on the hosts the tool is built for, so the u32 fields
\* widen without loss and their sum never wraps.
VAs == {0, 4096}
Ptrs == 0..MaxPtr
Sizes == (0..(MaxBuf + 1)) \cup {Len(ExampleBuffer)}

Sections == [name : Names, virtual_address : VAs,
             pointer_to_raw_data : Ptrs, size_of_raw_data : Sizes]

TextSections == {s \in Sections : s.name.ok /\ s.name.val = ".text"}

\* sections placed in front of another one in a two-entry table
Decoys == {[name |-> [ok |-> TRUE, val |-> ".TEXT"], virtual_address |-> 0,
            pointer_to_raw_data |-> 0, size_of_raw_data |-> 1],
           [name |-> [ok |-> TRUE, val |-> ".text"], virtual_address |-> 4096,
            pointer_to_raw_data |-> 0, size_of_raw_data |-> 1]}

Tables == {<< >>} \cup {<<s>> : s \in Sections}
          \cup {<<d, s>> : d \in Decoys, s \in TextSections}

\* results of PE::parse: the fields of goblin's PE the program reads
Executables == [is_64 : BOOLEAN, sections : Tables]

NoSection == [name |-> [ok |-> FALSE, val |-> ""], virtual_address |-> 0,
              pointer_to_raw_data |-> 0, size_of_raw_data |-> 0]

NoExecutable == [is_64 |-> FALSE, sections |-> << >>]

VARIABLES
    pc,          \* position in main / main_internal
    cli,         \* Cli: min_size, output
    buffer,      \* bytes of the input file
    executable,  \* parsed PE
    section,     \* the SectionTable find_text_section returned
    text,        \* the raw bytes of .text
    progress,    \* position of the progress bar
    matches_cc,  \* Vec of (start_pos, length)
    i,           \* scan cursor
    byte,        \* last byte read by the scan
    start_pos,   \* start of the run being measured
    reads,       \* indices passed to get_unchecked so far
    messages,    \* keys of the con:: messages printed so far
    created,     \* File::create succeeded on cli.output
    sink,        \* lines written to the output so far
    n,           \* enumerate() index inside write_digest
    err,         \* the Err main_internal returns, "none" for Ok(())
    exit         \* ExitCode returned by main

vars == <<pc, cli, buffer, executable, section, text, progress, matches_cc, i,
          byte, start_pos, reads, messages, created, sink, n, err, exit>>

scanVars == <<progress, matches_cc, i, byte, start_pos, reads>>
inputVars == <<cli, buffer, executable, section, text>>
outVars == <<created, sink, n>>

Init ==
    /\ pc = "read"
    /\ cli \in [min_size : MinSizes, output : Outputs]
    /\ buffer = << >>
    /\ executable = NoExecutable
    /\ section = NoSection
    /\ text = << >>
    /\ progress = 0
    /\ matches_cc = << >>
    /\ i = 0
    /\ byte = 0
    /\ start_pos = 0
    /\ reads = {}
    /\ messages = << >>
    /\ created = FALSE
    /\ sink = << >>
    /\ n = 0
    /\ err = "none"
    /\ exit = "none"

\* `?` on an Err: main_internal returns it
Bail(e, said) ==
    /\ err' = e
    /\ messages' = messages \o said
    /\ pc' = "return"

(* ------------------------- lines 31-36: read --------------------------- *)
ReadOk ==
    /\ pc = "read"
    /\ \E buf \in Buffers : buffer' = buf
    /\ messages' = messages \o <<"selected executable", "selected minimal size",
                                 "read executable">>
    /\ pc' = "parse"
    /\ UNCHANGED <<cli, executable, section, text, scanVars, outVars, err, exit>>

ReadErr ==
    /\ pc = "read"
    /\ Bail("read", <<"selected executable", "selected minimal size",
                      "failed to read executable">>)
    /\ UNCHANGED <<inputVars, scanVars, outVars, exit>>

(* ------------------------- lines 38-41: parse -------------------------- *)
\* goblin is not part of the repository: PE::parse either fails or yields
\* some executable; header bytes are not modelled.
ParseOk ==
    /\ pc = "parse"
    /\ \E exe \in Executables : executable' = exe
    /\ messages' = messages \o <<"parsed executable">>
    /\ pc' = "arch"
    /\ UNCHANGED <<cli, buffer, section, text, scanVars, outVars, err, exit>>

ParseErr ==
    /\ pc = "parse"
    /\ Bail("parse", <<"failed to parse executable">>)
    /\ UNCHANGED <<inputVars, scanVars, outVars, exit>>

(* ------------------------- lines 43-46: is_64 -------------------------- *)
\* faulty variant: the architecture check lets every image through
SupportedAny(exe) == TRUE

Supported(exe) == exe.is_64

ArchCheck ==
    /\ pc = "arch"
    /\ IF Supported(executable)
       THEN /\ pc' = "find"
            /\ UNCHANGED <<messages, err>>
       ELSE Bail("unsupported architecture", <<"unsupported architecture">>)
    /\ UNCHANGED <<inputVars, scanVars, outVars, exit>>

(* --------------------- lines 118-126: find_text_section ---------------- *)
IsText(sec) == sec.name.ok /\ sec.name.val = ".text"

\* index of the first section named ".text", 0 when there is none
FindTextSection(sections) ==
    IF \E j \in 1..Len(sections) : IsText(sections[j])
    THEN CHOOSE j \in 1..Len(sections) :
            /\ IsText(sections[j])
            /\ \A h \in 1..(j - 1) : ~IsText(sections[h])
    ELSE 0

FindText ==
    /\ pc = "find"
    /\ LET j == FindTextSection(executable.sections) IN
       IF j # 0
       THEN /\ section' = executable.sections[j]
            /\ messages' = messages \o <<"found .text">>
            /\ pc' = "slice"
            /\ UNCHANGED err
       ELSE /\ Bail("failed to find .text", <<"failed to find .text">>)
            /\ UNCHANGED section
    /\ UNCHANGED <<cli, buffer, executable, text, scanVars, outVars, exit>>

(* ------------------------- lines 53-58: slice -------------------------- *)
\* usize addition of two widened u32 values on a 64-bit host
UsizeAdd(a, b) == a + b

\* faulty variant: a range that runs past the end of the buffer is shortened to it
SliceGetClamped(buf, start, end) ==
    IF start <= end /\ start <= Len(buf)
    THEN [some |-> TRUE,
          val |-> SubSeq(buf, start + 1, IF end <= Len(buf) THEN end ELSE Len(buf))]
    ELSE [some |-> FALSE, val |-> << >>]

\* <[u8]>::get(start .. end): None when start > end or end > len
SliceGet(buf, start, end) ==
    IF start <= end /\ end <= Len(buf)
    THEN [some |-> TRUE, val |-> SubSeq(buf, start + 1, end)]
    ELSE [some |-> FALSE, val |-> << >>]

SliceText ==
    /\ pc = "slice"
    /\ LET offset == section.pointer_to_raw_data
           size == section.size_of_raw_data
           got == SliceGet(buffer, offset, UsizeAdd(offset, size))
       IN IF got.some
          THEN /\ text' = got.val
               /\ pc' = "style"
               /\ UNCHANGED <<messages, err>>
          ELSE /\ Bail("range out of bounds", <<"failed to get .text">>)
               /\ UNCHANGED text
    /\ UNCHANGED <<cli, buffer, executable, section, scanVars, outVars, exit>>

(* ------------------- lines 62-72: progress bar, scan setup ------------- *)
\* ProgressStyle::with_template parses a literal template that is valid,
\* so the `?` on line 64 never returns.
ScanSetup ==
    /\ pc = "style"
    /\ progress' = 0
    /\ messages' = messages \o <<"scanning .text for int3 sequences">>
    /\ matches_cc' = << >>
    /\ i' = 0
    /\ pc' = "outer"
    /\ UNCHANGED <<inputVars, byte, start_pos, reads, outVars, err, exit>>

(* ------------------------- lines 73-96: scan --------------------------- *)
\* *text.get_unchecked(idx): the byte when idx is in bounds, otherwise
\* undefined behaviour, any byte value
GetUnchecked(t, idx) == IF idx < Len(t) THEN {t[idx + 1]} ELSE Bytes

\* line 73
OuterCond(idx, len) == idx < len

\* faulty variant: the inner loop tests the byte only
InnerCondNoBound(b, idx, len) == b = CC

\* line 79
InnerCond(b, idx, len) == b = CC /\ idx < len

\* faulty variant: the run is measured one byte too long
RunLengthPlusOne(idx, start) == idx - start + 1

\* line 84
RunLength(idx, start) == idx - start

\* faulty variant: a run must exceed min_size to be kept
QualifiesStrict(length, min) == length > min

\* line 87
Qualifies(length, min) == length >= min

\* lines 73-77 and 91-94: loop test, first read, the non-0xCC arm
ScanOuter ==
    /\ pc = "outer"
    /\ OuterCond(i, Len(text))
    /\ \E b \in GetUnchecked(text, i) :
        /\ byte' = b
        /\ reads' = reads \cup {i}
        /\ start_pos' = i
        /\ IF b = CC
           THEN /\ pc' = "inner"
                /\ UNCHANGED <<i, progress>>
           ELSE /\ progress' = progress + 1
                /\ i' = i + 1
                /\ pc' = "outer"
    /\ UNCHANGED <<inputVars, matches_cc, messages, outVars, err, exit>>

\* lines 79-82: one iteration of the inner loop
ScanInner ==
    /\ pc = "inner"
    /\ InnerCond(byte, i, Len(text))
    /\ \E b \in GetUnchecked(text, i) :
        /\ byte' = b
        /\ reads' = reads \cup {i}
    /\ i' = i + 1
    /\ UNCHANGED <<pc, inputVars, progress, matches_cc, start_pos, messages,
                   outVars, err, exit>>

\* lines 84-89: the inner loop is left, the run is measured and kept
ScanPush ==
    /\ pc = "inner"
    /\ ~InnerCond(byte, i, Len(text))
    /\ LET length == RunLength(i, start_pos) IN
        /\ progress' = progress + length
        /\ matches_cc' = IF Qualifies(length, cli.min_size)
                         THEN Append(matches_cc, <<start_pos, length>>)
                         ELSE matches_cc
    /\ pc' = "outer"
    /\ UNCHANGED <<inputVars, i, byte, start_pos, reads, messages, outVars,
                   err, exit>>

\* lines 98-99: the outer loop is left
ScanDone ==
    /\ pc = "outer"
    /\ ~OuterCond(i, Len(text))
    /\ messages' = messages \o <<"scan completed">>
    /\ pc' = "open"
    /\ UNCHANGED <<inputVars, scanVars, outVars, err, exit>>

(* ------------------------- lines 101-115: digest ----------------------- *)
HexChars == <<"0", "1", "2", "3", "4", "5", "6", "7",
              "8", "9", "a", "b", "c", "d", "e", "f">>

\* Display / LowerHex of an unsigned integer, as a sequence of characters
RECURSIVE Digits(_, _)
Digits(v, base) ==
    IF v < base THEN <<HexChars[v + 1]>>
    ELSE Digits(v \div base, base) \o <<HexChars[(v % base) + 1]>>

\* faulty variant: the start offset is printed without the section's base
RvaNoBase(start, va) == start

\* line 104
RvaOf(start, va) == UsizeAdd(start, va)

\* line 105: "{}. at 0x{:x} length = {}\n"
FormatLine(idx, rva, length) ==
    Digits(idx, 10) \o <<".", " ", "a", "t", " ", "0", "x">> \o Digits(rva, 16)
    \o <<" ", "l", "e", "n", "g", "t", "h", " ", "=", " ">>
    \o Digits(length, 10) \o <<"\n">>

\* line 111: File::create(path)?
CreateOk ==
    /\ pc = "open"
    /\ cli.output = "Some"
    /\ created' = TRUE
    /\ sink' = << >>
    /\ n' = 0
    /\ pc' = "write"
    /\ UNCHANGED <<inputVars, scanVars, messages, err, exit>>

CreateErr ==
    /\ pc = "open"
    /\ cli.output = "Some"
    /\ Bail("create", << >>)
    /\ UNCHANGED <<inputVars, scanVars, outVars, exit>>

\* line 112: stdout()
OpenStdout ==
    /\ pc = "open"
    /\ cli.output = "None"
    /\ n' = 0
    /\ pc' = "write"
    /\ UNCHANGED <<inputVars, scanVars, messages, created, sink, err, exit>>

\* lines 102-106: one iteration of write_digest, writeln! succeeds
WriteLine ==
    /\ pc = "write"
    /\ n < Len(matches_cc)
    /\ LET m == matches_cc[n + 1]
           rva == RvaOf(m[1], section.virtual_address)
       IN sink' = Append(sink, FormatLine(n, rva, m[2]))
    /\ n' = n + 1
    /\ UNCHANGED <<pc, inputVars, scanVars, messages, created, err, exit>>

\* line 105: writeln!(..)? fails
WriteErr ==
    /\ pc = "write"
    /\ n < Len(matches_cc)
    /\ Bail("write", << >>)
    /\ UNCHANGED <<inputVars, scanVars, outVars, exit>>

\* lines 107 and 115: Ok(())
WriteDone ==
    /\ pc = "write"
    /\ n = Len(matches_cc)
    /\ pc' = "return"
    /\ UNCHANGED <<inputVars, scanVars, messages, outVars, err, exit>>

(* ------------------------- lines 22-28: main --------------------------- *)
\* faulty variant: the result of main_internal is ignored
ExitCodeIgnoresErr(e) == "SUCCESS"

ExitCodeOf(e) == IF e = "none" THEN "SUCCESS" ELSE "FAILURE"

MainExit ==
    /\ pc = "return"
    /\ exit' = ExitCodeOf(err)
    /\ pc' = "exited"
    /\ UNCHANGED <<inputVars, scanVars, messages, outVars, err>>

Next ==
    \/ ReadOk \/ ReadErr
    \/ ParseOk \/ ParseErr
    \/ ArchCheck
    \/ FindText
    \/ SliceText
    \/ ScanSetup
    \/ ScanOuter \/ ScanInner \/ ScanPush \/ ScanDone
    \/ CreateOk \/ CreateErr \/ OpenStdout
    \/ WriteLine \/ WriteErr \/ WriteDone
    \/ MainExit

Spec == Init /\ [][Next]_vars

(* ======================================================================= *)
(* Properties                                                              *)
(* ======================================================================= *)
Range(f) == {f[j] : j \in DOMAIN f}

ScanStarted == "scanning .text for int3 sequences" \in Range(messages)
ScanCompleted == "scan completed" \in Range(messages)
Parsed == "parsed executable" \in Range(messages)
Found == "found .text" \in Range(messages)
Exited == pc = "exited"

\* number of consecutive 0xCC bytes of t beginning at offset s
RECURSIVE TrueRun(_, _)
TrueRun(t, s) ==
    IF s < Len(t) /\ t[s + 1] = CC THEN 1 + TrueRun(t, s + 1) ELSE 0

\* offset s is the first position of a maximal 0xCC run of t
RunStart(t, s) == s < Len(t) /\ t[s + 1] = CC /\ (s = 0 \/ t[s] # CC)

Records == Range(matches_cc)

\* offsets covered by the records
Covered == UNION {m[1]..(m[1] + m[2] - 1) : m \in Records}

\* offsets of the 0xCC bytes that lie in a run of at least min bytes
QualifyingPositions(t, min) ==
    UNION {s..(s + TrueRun(t, s) - 1) :
           s \in {r \in 0..(Len(t) - 1) : RunStart(t, r) /\ TrueRun(t, r) >= min}}

\* the digest of every record, in order
FullReport ==
    [j \in 1..Len(matches_cc) |->
        FormatLine(j - 1, matches_cc[j][1] + section.virtual_address,
                   matches_cc[j][2])]

FailureMessages == {"failed to read executable", "failed to parse executable",
                    "unsupported architecture", "failed to find .text",
                    "failed to get .text"}

(* ------------------------------- C1 ------------------------------------ *)
\* C1: every record pushed by the scan has length >= min_size and length
\* equal to the number of consecutive 0xCC bytes beginning at its start; the
\* slice 90 CC CC CC 90 CC CC with min_size 3 yields exactly the record (1, 3).
C1_RecordLengthIsRunLength ==
    /\ \A m \in Records : m[2] >= cli.min_size /\ m[2] = TrueRun(text, m[1])
    /\ (ScanCompleted /\ text = ExampleBuffer /\ cli.min_size = 3)
          => matches_cc = << <<1, 3>> >>

(* ------------------------------- C2 ------------------------------------ *)
\* C2: after the scan there is a record at offset s exactly when s starts a
\* maximal 0xCC run of at least min_size bytes, and the offsets the records
\* cover are exactly the 0xCC offsets of those runs.
C2_RecordsAreQualifyingRuns ==
    ScanCompleted =>
        /\ {m[1] : m \in Records}
             = {s \in 0..(Len(text) - 1) :
                   RunStart(text, s) /\ TrueRun(text, s) >= cli.min_size}
        /\ Covered = QualifyingPositions(text, cli.min_size)

(* ------------------------------- C3 ------------------------------------ *)
\* C3: once the slice step has run, it has failed with "range out of bounds"
\* exactly when pointer_to_raw_data + size_of_raw_data exceeds the buffer
\* length, and otherwise text is buffer[offset .. offset+size], of length
\* size; no byte of the section is read before the check.
C3_SliceExactOrOutOfBounds ==
    LET offset == section.pointer_to_raw_data
        size == section.size_of_raw_data
    IN /\ (Found /\ pc # "slice") =>
            IF offset + size > Len(buffer)
            THEN err = "range out of bounds" /\ text = << >> /\ ~ScanStarted
            ELSE /\ err # "range out of bounds"
                 /\ Len(text) = size
                 /\ \A j \in 1..size : text[j] = buffer[offset + j]
       /\ ~ScanStarted => reads = {}

\* a section that starts inside the buffer and ends outside it was refused
C3_Witness ==
    /\ Exited
    /\ err = "range out of bounds"
    /\ section.pointer_to_raw_data < Len(buffer)
    /\ section.pointer_to_raw_data + section.size_of_raw_data > Len(buffer)

(* ------------------------------- C4 ------------------------------------ *)
\* C4 (as claimed): a run either completes the scan, reports the full match
\* list and exits with success, or aborts before the scan loop begins.
C4_NoFailureAfterScanStarts ==
    Exited =>
        \/ ScanCompleted /\ exit = "SUCCESS" /\ sink = FullReport
        \/ ~ScanStarted /\ exit = "FAILURE"

\* C4 (amended): a run either aborts before the scan loop begins, with
\* nothing created or written, or completes the scan; after the scan it
\* exits with success exactly when the full match list was written, and it
\* can still fail creating the output (nothing written) or writing a line
\* (a proper prefix of the report written), exiting with failure.
C4_FailsBeforeScanOrInOutput ==
    Exited =>
        \/ /\ ~ScanStarted
           /\ err \in {"read", "parse", "unsupported architecture",
                       "failed to find .text", "range out of bounds"}
           /\ exit = "FAILURE" /\ sink = << >> /\ ~created
        \/ /\ ScanCompleted /\ err = "none" /\ exit = "SUCCESS"
           /\ sink = FullReport
        \/ /\ ScanCompleted /\ err = "create" /\ exit = "FAILURE"
           /\ sink = << >> /\ ~created
        \/ /\ ScanCompleted /\ err = "write" /\ exit = "FAILURE"
           /\ Len(sink) < Len(FullReport)
           /\ sink = SubSeq(FullReport, 1, Len(sink))

\* a write failed after a line had been written: a partial report
C4_Witness == Exited /\ err = "write" /\ Len(sink) >= 1

(* ------------------------------- C5 ------------------------------------ *)
\* C5: every run that exits with failure has printed a message that says
\* what failed.
C5_EveryFailureIsReported ==
    (Exited /\ exit = "FAILURE") =>
        \E j \in 1..Len(messages) : messages[j] \in FailureMessages

(* ------------------------------- C6 ------------------------------------ *)
\* C6: the scan starts only after read, parse, the 64-bit check, the .text
\* lookup and the bounds check succeeded, in that order; an image that is
\* not 64-bit or has no section named ".text" aborts with failure without
\* scanning and without creating or writing output.
C6_PipelineOrder ==
    LET hasText == \E j \in 1..Len(executable.sections) :
                      executable.sections[j].name = [ok |-> TRUE, val |-> ".text"]
    IN /\ ScanStarted =>
            /\ SubSeq(messages, 1, 6)
                 = <<"selected executable", "selected minimal size",
                     "read executable", "parsed executable", "found .text",
                     "scanning .text for int3 sequences">>
            /\ executable.is_64
            /\ hasText
            /\ section.name = [ok |-> TRUE, val |-> ".text"]
            /\ section.pointer_to_raw_data + section.size_of_raw_data
                 <= Len(buffer)
       /\ (Parsed /\ pc \notin {"arch", "find"} /\ (~executable.is_64 \/ ~hasText))
            => /\ pc \in {"return", "exited"}
               /\ err # "none"
               /\ Exited => exit = "FAILURE"
               /\ ~ScanStarted /\ reads = {} /\ matches_cc = << >>
               /\ ~created /\ sink = << >>

\* a 64-bit image whose only section is named ".TEXT" was refused
C6_Witness ==
    /\ Exited
    /\ executable.is_64
    /\ Len(executable.sections) = 1
    /\ executable.sections[1].name.val = ".TEXT"
    /\ exit = "FAILURE"

(* ------------------------------- C7 ------------------------------------ *)
AllCC(t) == \A j \in 1..Len(t) : t[j] = CC

\* C7: after the scan, a slice of L >= 1 bytes that are all 0xCC has the one
\* record (0, L) when min_size <= L and none when min_size > L; an empty
\* slice has no record; a run that touches the end of the slice is reported
\* with its exact 0xCC count when that count reaches min_size.
C7_SliceBoundaryRuns ==
    ScanCompleted =>
        /\ (Len(text) >= 1 /\ AllCC(text)) =>
              matches_cc = IF cli.min_size <= Len(text)
                           THEN << <<0, Len(text)>> >> ELSE << >>
        /\ text = << >> => matches_cc = << >>
        /\ \A s \in 0..(Len(text) - 1) :
              (RunStart(text, s) /\ s + TrueRun(text, s) = Len(text)) =>
                 IF TrueRun(text, s) >= cli.min_size
                 THEN /\ <<s, TrueRun(text, s)>> \in Records
                      /\ \A m \in Records : m[1] = s => m[2] = TrueRun(text, s)
                 ELSE \A m \in Records : m[1] # s

\* an all-0xCC slice of at least two bytes scanned with min_size = its length
C7_Witness ==
    /\ ScanCompleted
    /\ Len(text) >= 2 /\ AllCC(text)
    /\ cli.min_size = Len(text)
    /\ matches_cc = << <<0, Len(text)>> >>

(* ------------------------------- C8 ------------------------------------ *)
CharVal(c) == CHOOSE d \in 0..15 : HexChars[d + 1] = c

IsNumber(cs, base) ==
    /\ cs # << >>
    /\ \A j \in 1..Len(cs) : \E d \in 0..(base - 1) : HexChars[d + 1] = cs[j]

\* the number a sequence of digit characters denotes
RECURSIVE NumberOf(_, _)
NumberOf(cs, base) ==
    IF cs = << >> THEN 0
    ELSE NumberOf(SubSeq(cs, 1, Len(cs) - 1), base) * base + CharVal(cs[Len(cs)])

\* the words of a line, split at each space
RECURSIVE Words(_)
Words(cs) ==
    IF cs = << >> THEN << << >> >>
    ELSE LET rest == Words(Tail(cs)) IN
         IF Head(cs) = " " THEN << << >> >> \o rest
         ELSE << <<Head(cs)>> \o rest[1] >> \o Tail(rest)

\* "<index>. at 0x<hex> length = <decimal>\n"
WellFormed(line) ==
    /\ Len(line) >= 1 /\ line[Len(line)] = "\n"
    /\ LET w == Words(SubSeq(line, 1, Len(line) - 1)) IN
        /\ Len(w) = 6
        /\ Len(w[1]) >= 2 /\ w[1][Len(w[1])] = "."
        /\ IsNumber(SubSeq(w[1], 1, Len(w[1]) - 1), 10)
        /\ w[2] = <<"a", "t">>
        /\ Len(w[3]) >= 3 /\ SubSeq(w[3], 1, 2) = <<"0", "x">>
        /\ IsNumber(SubSeq(w[3], 3, Len(w[3])), 16)
        /\ w[4] = <<"l", "e", "n", "g", "t", "h">>
        /\ w[5] = <<"=">>
        /\ IsNumber(w[6], 10)

ParsedLine(line) ==
    LET w == Words(SubSeq(line, 1, Len(line) - 1)) IN
    [index |-> NumberOf(SubSeq(w[1], 1, Len(w[1]) - 1), 10),
     rva |-> NumberOf(SubSeq(w[3], 3, Len(w[3])), 16),
     length |-> NumberOf(w[6], 10)]

C9_RecordsOrderedDisjoint ==
    /\ \A j \in 1..(Len(matches_cc) - 1) :
          /\ matches_cc[j][1] < matches_cc[j + 1][1]
          /\ matches_cc[j][1] + matches_cc[j][2] <= matches_cc[j + 1][1]
    /\ \A j \in 1..Len(matches_cc) :
          matches_cc[j][1] + matches_cc[j][2] <= Len(text)
    /\ \A j, h \in 1..Len(matches_cc) :
          matches_cc[j][1] = matches_cc[h][1] => j = h

\* two records have been pushed and the scan is still running
C9_Witness == Len(matches_cc) >= 2 /\ pc \in {"outer", "inner"}

(* ------------------------------- C10 ----------------------------------- *)
\* C10: the cursor stays within 0..text.len() and every get_unchecked is
\* given an index below text.len().
C10_ReadsInBounds ==
    /\ i \in 0..Len(text)
    /\ start_pos <= i
    /\ \A r \in reads : 0 <= r /\ r < Len(text)

\* the scan of a slice that ends in a 0xCC run has finished and has read
\* the last byte
C10_Witness ==
    /\ ScanCompleted
    /\ Len(text) >= 2
    /\ text[Len(text)] = CC /\ text[Len(text) - 1] = CC
    /\ (Len(text) - 1) \in reads
====
